---- MODULE Spec2Model ----
(***************************************************************************)
(* The request-dispatch core of falcon.api.API: the route, sink and error  *)
(* handler tables, the responder resolver, and the per-request control     *)
(* flow of API.__call__ (middleware stack, error handlers, after hooks,    *)
(* error response composition, Content-Length and body selection), with    *)
(* Python's exception propagation made explicit, and with the activations  *)
(* of API.__call__ on different threads interleaved step by step.          *)
(***************************************************************************)
EXTENDS Naturals, Sequences, FiniteSets

(* ------------------------------ bounds -------------------------------- *)

\* most routes added by add_route during setup
MaxRoutes == 2
\* most sinks added by add_sink during setup
MaxSinks == 2
\* most components in the middleware list given to the constructor
MaxMiddleware == 3
\* most entries added by add_error_handler during setup
MaxHandlers == 2
\* most global after hooks given to the constructor
MaxAfter == 1

(* --------------------------- value domains ---------------------------- *)

NoneVal == "None"

Methods == {"GET", "POST"}

Segments == {"a", "b"}

\* request paths: one or two segments, "/a", "/a/b", ...
Paths == {<<s>> : s \in Segments} \cup {<<s, t>> : s \in Segments, t \in Segments}

Lit(s) == [field |-> FALSE, text |-> s]

Field(n) == [field |-> TRUE, text |-> n]

\* URI templates "/a", "/{id}", "/a/{id}"
Templates == {<<Lit("a")>>, <<Field("id")>>, <<Lit("a"), Field("id")>>}

\* sink prefixes r'/' and r'/(?P<name>[^/]+)' and r'/a'
Prefixes == {<< >>, <<Field("name")>>, <<Lit("a")>>}

\* resources: the HTTP methods for which each defines an on_* responder
ResourceMethods == [R1 |-> {"GET"}, R2 |-> {"GET", "POST"}]

Resources == DOMAIN ResourceMethods

SinkIds == {"S1", "S2"}

\* failure kinds a callback may raise; HTTPError is the structured one
RaiseKinds == {"HTTPError", "Base", "Derived"}

\* exception classes that may be registered with add_error_handler
RegKinds == {"HTTPError", "Base", "Derived"}

\* isinstance(ex, err_type) for ex an instance of class `kind`
IsInstance(kind, err_type) ==
    \/ kind = err_type
    \/ kind = "Derived" /\ err_type = "Base"

\* exception classes that define a static method named "handle"
HasStaticHandle(kind) == kind = "Derived"

(* ---------------------- matching and resolution ----------------------- *)

SegMatch(seg, s) == seg.field \/ seg.text = s

\* path_template.match(path): anchored at both ends, one field per segment
TemplateMatch(tpl, path) ==
    /\ Len(tpl) = Len(path)
    /\ \A i \in 1..Len(tpl) : SegMatch(tpl[i], path[i])

\* pattern.match(path): matches at the start of the path, need not consume it
PrefixMatch(pat, path) ==
    /\ Len(pat) <= Len(path)
    /\ \A i \in 1..Len(pat) : SegMatch(pat[i], path[i])

\* m.groupdict(): the named groups and the text each one captured
GroupDict(pat, path) ==
    {<<pat[i].text, path[i]>> : i \in {j \in 1..Len(pat) : pat[j].field}}

Responder(kind, id, method) == [kind |-> kind, id |-> id, method |-> method]

bad_request == Responder("bad_request", NoneVal, NoneVal)

path_not_found == Responder("path_not_found", NoneVal, NoneVal)

\* routing.create_http_method_map: one wrapped responder per method the
\* resource defines, no entry for the other methods
create_http_method_map(resource) ==
    [m \in ResourceMethods[resource] |-> Responder("on", resource, m)]

\* the entry at which a "for ... if hit: ... break" loop over a table stops:
\* the least of the indices that hit, 0 when the loop runs to its else
FirstIndex(hits) ==
    IF hits = {} THEN 0 ELSE CHOOSE i \in hits : \A j \in hits : i <= j

\* the indices of the entries of table that satisfy Hit
Hits(table, Hit(_)) == {i \in 1..Len(table) : Hit(table[i])}

\* pattern.search(path): the pattern may match at any segment of the path
PrefixSearch(pat, path) ==
    \E d \in 0..Len(path) : PrefixMatch(pat, SubSeq(path, d + 1, Len(path)))

\* variant of get_responder_sinks: the sinks are tried with search, not match
get_responder_sinks_search(snks, path) ==
    LET Hit(e) == PrefixSearch(e.pattern, path)
        k == FirstIndex(Hits(snks, Hit))
    IN  IF k # 0
        THEN [responder |-> Responder("sink", snks[k].sink, NoneVal),
              params |-> GroupDict(snks[k].pattern, path),
              resource |-> NoneVal]
        ELSE [responder |-> path_not_found, params |-> {}, resource |-> NoneVal]

\* the second loop of _get_responder: the sinks, then path_not_found
get_responder_sinks(snks, path) ==
    LET Hit(e) == PrefixMatch(e.pattern, path)
        k == FirstIndex(Hits(snks, Hit))
    IN  IF k # 0
        THEN [responder |-> Responder("sink", snks[k].sink, NoneVal),
              params |-> GroupDict(snks[k].pattern, path),
              resource |-> NoneVal]
        ELSE [responder |-> path_not_found, params |-> {}, resource |-> NoneVal]

\* the method lookup of _get_responder in the route that matched
get_responder_method(route, method) ==
    IF method \in DOMAIN route.method_map
    THEN route.method_map[method]
    ELSE bad_request

\* variant of get_responder: "resource = None" is missing before the sinks
\* are scanned, so the loop variable keeps the last route's resource
get_responder_keep_resource(rts, snks, path, method) ==
    LET Hit(e) == TemplateMatch(e.path_template, path)
        k == FirstIndex(Hits(rts, Hit))
        found == get_responder_sinks(snks, path)
    IN  IF k # 0
        THEN [responder |-> get_responder_method(rts[k], method),
              params |-> GroupDict(rts[k].path_template, path),
              resource |-> rts[k].resource]
        ELSE IF rts = << >>
             THEN found
             ELSE [found EXCEPT !.resource = rts[Len(rts)].resource]

\* variant of get_responder: a route without the method is skipped
\* ("continue" on KeyError) instead of answering with bad_request
get_responder_fall_through(rts, snks, path, method) ==
    LET Hit(e) == /\ TemplateMatch(e.path_template, path)
                  /\ method \in DOMAIN e.method_map
        k == FirstIndex(Hits(rts, Hit))
    IN  IF k # 0
        THEN [responder |-> get_responder_method(rts[k], method),
              params |-> GroupDict(rts[k].path_template, path),
              resource |-> rts[k].resource]
        ELSE get_responder_sinks(snks, path)

\* API._get_responder
get_responder(rts, snks, path, method) ==
    LET Hit(e) == TemplateMatch(e.path_template, path)
        k == FirstIndex(Hits(rts, Hit))
    IN  IF k # 0
        THEN [responder |-> get_responder_method(rts[k], method),
              params |-> GroupDict(rts[k].path_template, path),
              resource |-> rts[k].resource]
        ELSE get_responder_sinks(snks, path)

(* ----------------------- response and error values -------------------- *)

\* an attribute that may be None: << >> is None, <<v>> holds the value v
Unset == << >>

Given(v) == <<v>>

\* header names as the response stores them (lower case)
HeaderNames == {"content-type", "content-length", "x-app"}

\* a header dict: the value of each header, NoneVal for a header not in it
NoHeaders == [n \in HeaderNames |-> NoneVal]

\* falcon.Response(): "200 OK", no header, no body, data or stream
NewResponse ==
    [status |-> "200 OK", headers |-> NoHeaders, body |-> Unset,
     data |-> Unset, stream |-> NoneVal, stream_len |-> Unset]

\* the UTF-8 encoding of one character: one byte for "a", two for "e-acute"
Utf8Char(c) == IF c = "a" THEN <<97>> ELSE <<195, 169>>

RECURSIVE Utf8(_)
\* text.encode('utf-8')
Utf8(text) ==
    IF text = << >> THEN << >> ELSE Utf8Char(Head(text)) \o Utf8(Tail(text))

\* resp.body_encoded: None without a body, else the body as UTF-8 bytes
body_encoded(resp) ==
    IF resp.body = Unset THEN Unset ELSE Given(Utf8(resp.body[1]))

\* str(n) for the lengths that occur
Str(n) == <<"0", "1", "2", "3", "4", "5", "6", "7", "8", "9">>[n + 1]

\* resp.set_header(name, value)
set_header(headers, name, value) == [headers EXCEPT ![name] = value]

\* resp.set_headers(more): every header of the dict `more` replaces the
\* response's header of that name
set_headers(headers, more) ==
    [n \in HeaderNames |-> IF more[n] # NoneVal THEN more[n] ELSE headers[n]]

\* resp.content_type: the Content-Type header of the response
content_type(resp) == resp.headers["content-type"]

\* variant of ErrorResponse: the serializer's media type is set before the
\* headers of the error are applied
ErrorResponse_type_first(resp, error) ==
    LET r1 == [resp EXCEPT !.status = error.status]
        r2 == IF error.has_representation /\ error.serialized.body # Unset
              THEN [r1 EXCEPT !.body = error.serialized.body,
                              !.headers = set_header(r1.headers, "content-type",
                                                     error.serialized.media_type)]
              ELSE r1
    IN  IF error.headers # Unset
        THEN [r2 EXCEPT !.headers = set_headers(r2.headers, error.headers[1])]
        ELSE r2

\* API._compose_error_response: the response after the error was composed
\* into it; error.serialized is what self._serialize_error(req, error) returns
ErrorResponse(resp, error) ==
    LET r1 == [resp EXCEPT !.status = error.status]
        r2 == IF error.headers # Unset
              THEN [r1 EXCEPT !.headers = set_headers(r1.headers, error.headers[1])]
              ELSE r1
    IN  IF error.has_representation /\ error.serialized.body # Unset
        THEN [r2 EXCEPT !.body = error.serialized.body,
                        !.headers = set_header(r2.headers, "content-type",
                                               error.serialized.media_type)]
        ELSE r2

\* API._BODILESS_STATUS_CODES
BODILESS_STATUS_CODES ==
    {"100 Continue", "101 Switching Protocols", "204 No Content", "304 Not Modified"}

\* API._STREAM_BLOCK_SIZE
STREAM_BLOCK_SIZE == 8 * 1024

\* variant of set_content_length: the data is measured before the body
set_content_length_data_first(resp) ==
    LET body == body_encoded(resp)
        length(n) == [resp EXCEPT !.headers =
                         set_header(resp.headers, "content-length", Str(n))]
    IN  IF resp.data # Unset THEN length(Len(resp.data[1]))
        ELSE IF body # Unset THEN length(Len(body[1]))
        ELSE IF resp.stream # NoneVal
             THEN IF resp.stream_len # Unset THEN length(resp.stream_len[1]) ELSE resp
             ELSE length(0)

\* API._set_content_length: the response with its Content-Length header set
set_content_length(resp) ==
    LET body == body_encoded(resp)
        length(n) == [resp EXCEPT !.headers =
                         set_header(resp.headers, "content-length", Str(n))]
    IN  IF body # Unset THEN length(Len(body[1]))
        ELSE IF resp.data # Unset THEN length(Len(resp.data[1]))
        ELSE IF resp.stream # NoneVal
             THEN IF resp.stream_len # Unset THEN length(resp.stream_len[1]) ELSE resp
             ELSE length(0)

\* a list of byte strings, as returned to the WSGI server
Chunks(list) == [kind |-> "list", chunks |-> list]

\* API._get_body: the iterable returned to the WSGI server; a stream is
\* "file" when it has a read method and "iterable" otherwise
get_body(resp, wsgi_file_wrapper) ==
    LET body == body_encoded(resp)
    IN  IF body # Unset THEN Chunks(<<body[1]>>)
        ELSE IF resp.data # Unset THEN Chunks(<<resp.data[1]>>)
        ELSE IF resp.stream # NoneVal
             THEN IF resp.stream = "file"
                  THEN IF wsgi_file_wrapper
                       THEN [kind |-> "file_wrapper", block_size |-> STREAM_BLOCK_SIZE]
                       ELSE [kind |-> "iter_read", block_size |-> STREAM_BLOCK_SIZE]
                  ELSE [kind |-> "stream"]
             ELSE Chunks(<< >>)

\* the truth value Python gives the body: a list is true when not empty
Truthy(body) == body.kind # "list" \/ body.chunks # << >>

\* variant of Finalized: the status is not looked at, only HEAD suppresses
Finalized_head_only(method, resp, wsgi_file_wrapper) ==
    LET suppressed == method = "HEAD"
        final == IF suppressed THEN resp ELSE set_content_length(resp)
        body == IF suppressed THEN Chunks(<< >>) ELSE get_body(final, wsgi_file_wrapper)
        use_content_type ==
            Truthy(body) \/ method = "HEAD" \/ final.status = "416 Range Not Satisfiable"
    IN  [status |-> final.status,
         headers |-> final.headers,
         media_type |-> use_content_type,
         body |-> body]

\* variant of Finalized: the status 416 is not looked at
Finalized_no_416(method, resp, wsgi_file_wrapper) ==
    LET suppressed == method = "HEAD" \/ resp.status \in BODILESS_STATUS_CODES
        final == IF suppressed THEN resp ELSE set_content_length(resp)
        body == IF suppressed THEN Chunks(<< >>) ELSE get_body(final, wsgi_file_wrapper)
        use_content_type == Truthy(body) \/ method = "HEAD"
    IN  [status |-> final.status,
         headers |-> final.headers,
         media_type |-> use_content_type,
         body |-> body]

\* API.__call__, lines 241-261: what start_response is given and what the
\* call returns; media_type tells whether self._media_type is passed to
\* resp._wsgi_headers (TRUE) or None is (FALSE)
Finalized(method, resp, wsgi_file_wrapper) ==
    LET suppressed == method = "HEAD" \/ resp.status \in BODILESS_STATUS_CODES
        final == IF suppressed THEN resp ELSE set_content_length(resp)
        body == IF suppressed THEN Chunks(<< >>) ELSE get_body(final, wsgi_file_wrapper)
        use_content_type ==
            Truthy(body) \/ method = "HEAD" \/ final.status = "416 Range Not Satisfiable"
    IN  [status |-> final.status,
         headers |-> final.headers,
         media_type |-> use_content_type,
         body |-> body]

(* ------------------------------- state -------------------------------- *)

VARIABLES
    routes,          \* self._routes
    sinks,           \* self._sinks
    error_handlers,  \* self._error_handlers
    middleware,      \* self._middleware
    after,           \* self._after (the number of global after hooks)
    route_log,       \* history: add_route calls, oldest first
    sink_log,        \* history: add_sink calls, oldest first
    handler_log,     \* history: successful add_error_handler calls, oldest first
    setup_failed,    \* number of add_error_handler calls that raised AttributeError
    pc,              \* position of the dispatch call
    req,             \* the request of the call
    result,          \* (responder, params, resource) of the call
    stack,           \* middleware_stack of the call
    mw_i,            \* loop position in _call_req_mw
    hook_i,          \* loop position in the after hooks
    site,            \* which call of _call_resp_mw / after hooks is running
    ex,              \* the exception being handled or propagated
    caught,          \* history: the exception caught by "except Exception"
    trace,           \* history: the callbacks invoked, each with its outcome
    resp,            \* the response object of the call
    sent,            \* what start_response was given and the body returned
    composed,        \* history: the error composed and the response before it
    cur,             \* the dispatch call (thread) that is running
    parked           \* the local state of the calls that are not running

tables == <<routes, sinks, route_log, sink_log>>

handlers == <<error_handlers, handler_log, setup_failed>>

config == <<middleware, after>>

call == <<pc, req, result, stack, mw_i, hook_i, site, ex, caught, trace, resp, sent, composed>>

threads == <<cur, parked>>

vars == <<tables, handlers, config, call, threads>>

\* responder, params and resource before _get_responder has returned
NoResult ==
    [responder |-> Responder(NoneVal, NoneVal, NoneVal), params |-> {}, resource |-> NoneVal]

NoReq == [path |-> << >>, method |-> NoneVal]

\* a middleware component: which of the two callbacks it defines
Components == {[process_request |-> TRUE, process_response |-> TRUE],
               [process_request |-> TRUE, process_response |-> FALSE],
               [process_request |-> FALSE, process_response |-> TRUE]}

SeqsUpTo(S, n) == UNION {[1..k -> S] : k \in 0..n}

CallInit ==
    /\ pc = "idle"
    /\ req = NoReq
    /\ result = NoResult
    /\ stack = << >>
    /\ mw_i = 0
    /\ hook_i = 0
    /\ site = NoneVal
    /\ ex = NoneVal
    /\ caught = NoneVal
    /\ trace = << >>
    /\ resp = NewResponse
    /\ sent = Unset
    /\ composed = Unset

\* one dispatch call at a time: no other call is in progress
OneCall ==
    /\ cur = 1
    /\ parked = << >>

\* API.__init__
TablesInit ==
    /\ routes = << >>
    /\ sinks = << >>
    /\ route_log = << >>
    /\ sink_log = << >>
    /\ error_handlers = << >>
    /\ handler_log = << >>
    /\ setup_failed = 0

(* ------------------------------- setup -------------------------------- *)

\* variant of add_route: the new route goes to the tail of the table
add_route_append(uri_template, resource) ==
    /\ pc = "idle"
    /\ Len(route_log) < MaxRoutes
    /\ LET entry == [path_template |-> uri_template,
                     method_map |-> create_http_method_map(resource),
                     resource |-> resource]
       IN  /\ routes' = Append(routes, entry)
           /\ route_log' = Append(route_log, entry)
    /\ UNCHANGED <<sinks, sink_log, handlers, config, call, threads>>

\* API.add_route
add_route(uri_template, resource) ==
    /\ pc = "idle"
    /\ Len(route_log) < MaxRoutes
    /\ LET entry == [path_template |-> uri_template,
                     method_map |-> create_http_method_map(resource),
                     resource |-> resource]
       IN  /\ routes' = <<entry>> \o routes
           /\ route_log' = Append(route_log, entry)
    /\ UNCHANGED <<sinks, sink_log, handlers, config, call, threads>>

\* API.add_sink
add_sink(sink, prefix) ==
    /\ pc = "idle"
    /\ Len(sink_log) < MaxSinks
    /\ LET entry == [pattern |-> prefix, sink |-> sink]
       IN  /\ sinks' = <<entry>> \o sinks
           /\ sink_log' = Append(sink_log, entry)
    /\ UNCHANGED <<routes, route_log, handlers, config, call, threads>>

\* variant of add_error_handler: the new entry goes to the tail of the list
add_error_handler_append(exception, handler) ==
    /\ pc = "idle"
    /\ Len(handler_log) + setup_failed < MaxHandlers
    /\ IF handler = 0 /\ ~HasStaticHandle(exception)
       THEN /\ setup_failed' = setup_failed + 1
            /\ UNCHANGED <<error_handlers, handler_log>>
       ELSE LET entry == [err_type |-> exception, handler |-> handler]
            IN  /\ error_handlers' = Append(error_handlers, entry)
                /\ handler_log' = Append(handler_log, entry)
                /\ UNCHANGED setup_failed
    /\ UNCHANGED <<tables, config, call, threads>>

\* variant of add_error_handler: exception.handle is not looked up at
\* registration, the entry is inserted with whatever is there
add_error_handler_unchecked(exception, handler) ==
    /\ pc = "idle"
    /\ Len(handler_log) + setup_failed < MaxHandlers
    /\ LET entry == [err_type |-> exception, handler |-> handler]
       IN  /\ error_handlers' = <<entry>> \o error_handlers
           /\ handler_log' = Append(handler_log, entry)
           /\ UNCHANGED setup_failed
    /\ UNCHANGED <<tables, config, call, threads>>

\* API.add_error_handler; handler = 0 stands for handler=None, and an entry
\* whose handler is 0 holds exception.handle
add_error_handler(exception, handler) ==
    /\ pc = "idle"
    /\ Len(handler_log) + setup_failed < MaxHandlers
    /\ IF handler = 0 /\ ~HasStaticHandle(exception)
       THEN /\ setup_failed' = setup_failed + 1
            /\ UNCHANGED <<error_handlers, handler_log>>
       ELSE LET entry == [err_type |-> exception, handler |-> handler]
            IN  /\ error_handlers' = <<entry>> \o error_handlers
                /\ handler_log' = Append(handler_log, entry)
                /\ UNCHANGED setup_failed
    /\ UNCHANGED <<tables, config, call, threads>>

(* ------------------------------ dispatch ------------------------------ *)

\* API.__call__, lines 179-182: the per-request state is created
Call(path, method) ==
    /\ pc = "idle"
    /\ pc' = "resolve"
    /\ req' = [path |-> path, method |-> method]
    /\ result' = NoResult
    /\ stack' = << >>
    /\ trace' = << >>
    /\ resp' = NewResponse
    /\ sent' = Unset
    /\ composed' = Unset
    /\ UNCHANGED <<mw_i, hook_i, site, ex, caught>>
    /\ UNCHANGED <<tables, handlers, config, threads>>

\* one callback invocation and how it ended: "ok" or the kind it raised
Ev(op, id, out) == [op |-> op, id |-> id, out |-> out]

Outcomes == {"ok"} \cup RaiseKinds

\* the try statement enclosing each call site of API.__call__:
\*   "inner"   lines 199-202, caught by "except Exception" (line 204)
\*   "handler" lines 205-231, inside the except clause, caught only by
\*             "except HTTPError" (line 233)
\*   "outer"   lines 234-236, caught by nothing
SiteRegion(s) ==
    CASE s \in {"201", "202"} -> "inner"
      [] s \in {"208", "209", "230"} -> "handler"
      [] OTHER -> "outer"

\* where control goes when an exception of class kind is raised in region
RaiseTo(region, kind) ==
    CASE region = "inner" -> "catch"
      [] region = "handler" ->
            IF IsInstance(kind, "HTTPError") THEN "compose" ELSE "raised"
      [] OTHER -> "raised"

\* variant of stack_append: the component is recorded twice
stack_append_twice(stk, c) == Append(Append(stk, c), c)

\* stack.append(component)
stack_append(stk, c) == Append(stk, c)

\* variant of stack_pop: stack.pop(0), the oldest entry first
stack_pop_front(stk) ==
    [component |-> stk[1], rest |-> SubSeq(stk, 2, Len(stk))]

\* stack.pop()
stack_pop(stk) ==
    [component |-> stk[Len(stk)], rest |-> SubSeq(stk, 1, Len(stk) - 1)]

\* API._call_req_mw leaves its loop when the components are exhausted
ReqMwNext(i) == IF i > Len(middleware) THEN "responder" ELSE "req_mw"

\* API._call_after_hooks: "if not self._after: return", else the loop
HooksNext(i) == IF i > after THEN "hooks_done" ELSE "after_hooks"

\* API.__call__, line 191: self._get_responder(req) returns
Resolve ==
    /\ pc = "resolve"
    /\ result' = get_responder(routes, sinks, req.path, req.method)
    /\ pc' = ReqMwNext(1)
    /\ mw_i' = 1
    /\ UNCHANGED <<req, composed, resp, sent, stack, hook_i, site, ex, caught, trace>>
    /\ UNCHANGED <<tables, handlers, config, threads>>

\* variant of call_req_mw: an exception of process_request is swallowed and
\* the loop goes on with the next component
call_req_mw_continue(out) ==
    /\ pc = "req_mw"
    /\ LET component == middleware[mw_i]
       IN  IF component.process_request
           THEN trace' = Append(trace, Ev("process_request", mw_i, out))
           ELSE out = "ok" /\ trace' = trace
    /\ stack' = stack_append(stack, mw_i)
    /\ mw_i' = mw_i + 1
    /\ pc' = ReqMwNext(mw_i + 1)
    /\ UNCHANGED <<req, composed, resp, sent, result, hook_i, site, ex, caught>>
    /\ UNCHANGED <<tables, handlers, config, threads>>

\* API._call_req_mw: one iteration of the loop over self._middleware
call_req_mw(out) ==
    /\ pc = "req_mw"
    /\ LET component == middleware[mw_i]
       IN  IF component.process_request
           THEN /\ trace' = Append(trace, Ev("process_request", mw_i, out))
                /\ IF out = "ok"
                   THEN /\ stack' = stack_append(stack, mw_i)
                        /\ mw_i' = mw_i + 1
                        /\ pc' = ReqMwNext(mw_i + 1)
                        /\ ex' = ex
                   ELSE /\ ex' = out
                        /\ pc' = RaiseTo("inner", out)
                        /\ UNCHANGED <<stack, mw_i>>
           ELSE /\ out = "ok"
                /\ stack' = stack_append(stack, mw_i)
                /\ mw_i' = mw_i + 1
                /\ pc' = ReqMwNext(mw_i + 1)
                /\ UNCHANGED <<ex, trace>>
    /\ UNCHANGED <<req, composed, resp, sent, result, hook_i, site, caught>>
    /\ UNCHANGED <<tables, handlers, config, threads>>

\* API.__call__, line 201: responder(req, resp, **params).  A responder taken
\* from a method map is wrapped with the global hooks, so its after hooks
\* follow the on_* method inside the same call.  The responder leaves the
\* response as `written`, whether it returns or raises.
call_responder(out, written) ==
    /\ pc = "responder"
    /\ trace' = Append(trace, Ev("responder", 0, out))
    /\ resp' = written
    /\ IF out = "ok"
       THEN IF result.responder.kind = "on"
            THEN /\ pc' = HooksNext(1)
                 /\ hook_i' = 1
                 /\ site' = "201"
                 /\ ex' = ex
            ELSE /\ pc' = "resp_mw"
                 /\ site' = "202"
                 /\ UNCHANGED <<hook_i, ex>>
       ELSE /\ ex' = out
            /\ pc' = RaiseTo("inner", out)
            /\ UNCHANGED <<hook_i, site>>
    /\ UNCHANGED <<req, composed, sent, result, stack, mw_i, caught>>
    /\ UNCHANGED <<tables, handlers, config, threads>>

\* API._call_after_hooks: hook(req, resp, resource) for the next hook
call_after_hooks(out) ==
    /\ pc = "after_hooks"
    /\ trace' = Append(trace, Ev("after_hook", hook_i, out))
    /\ IF out = "ok"
       THEN /\ hook_i' = hook_i + 1
            /\ pc' = HooksNext(hook_i + 1)
            /\ ex' = ex
       ELSE IF out = "TypeError"
            THEN /\ pc' = "hook_retry"
                 /\ UNCHANGED <<hook_i, ex>>
            ELSE /\ ex' = out
                 /\ pc' = RaiseTo(SiteRegion(site), out)
                 /\ hook_i' = hook_i
    /\ UNCHANGED <<req, composed, resp, sent, result, stack, mw_i, site, caught>>
    /\ UNCHANGED <<tables, handlers, config, threads>>

\* API._call_after_hooks: "except TypeError: hook(req, resp)"
call_after_hooks_retry(out) ==
    /\ pc = "hook_retry"
    /\ trace' = Append(trace, Ev("after_hook", hook_i, out))
    /\ IF out = "ok"
       THEN /\ hook_i' = hook_i + 1
            /\ pc' = HooksNext(hook_i + 1)
            /\ ex' = ex
       ELSE /\ ex' = out
            /\ pc' = RaiseTo(SiteRegion(site), out)
            /\ hook_i' = hook_i
    /\ UNCHANGED <<req, composed, resp, sent, result, stack, mw_i, site, caught>>
    /\ UNCHANGED <<tables, handlers, config, threads>>

\* the after hooks return; in API.__call__ (and in the wrapped responder)
\* the call of _call_resp_mw on the next line follows
after_hooks_return ==
    /\ pc = "hooks_done"
    /\ pc' = "resp_mw"
    /\ site' = CASE site = "201" -> "202"
                 [] site = "208" -> "209"
                 [] OTHER -> "236"
    /\ UNCHANGED <<req, composed, resp, sent, result, stack, mw_i, hook_i, ex, caught, trace>>
    /\ UNCHANGED <<tables, handlers, config, threads>>

\* API._call_resp_mw: one iteration of "while stack"
call_resp_mw(out) ==
    /\ pc = "resp_mw"
    /\ stack # << >>
    /\ LET top == stack_pop(stack)
       IN  /\ stack' = top.rest
           /\ IF middleware[top.component].process_response
              THEN /\ trace' = Append(trace, Ev("process_response", top.component, out))
                   /\ IF out = "ok"
                      THEN UNCHANGED <<pc, ex>>
                      ELSE /\ ex' = out
                           /\ pc' = RaiseTo(SiteRegion(site), out)
              ELSE /\ out = "ok"
                   /\ UNCHANGED <<pc, ex, trace>>
    /\ UNCHANGED <<req, composed, resp, sent, result, mw_i, hook_i, site, caught>>
    /\ UNCHANGED <<tables, handlers, config, threads>>

\* API._call_resp_mw returns with the stack empty; what follows its call at
\* line 202, 209 (break), 230 (the bare raise of line 231) or 236
call_resp_mw_return ==
    /\ pc = "resp_mw"
    /\ stack = << >>
    /\ pc' = IF site = "230" THEN RaiseTo("handler", ex) ELSE "finalize"
    /\ UNCHANGED <<req, composed, resp, sent, result, stack, mw_i, hook_i, site, ex, caught, trace>>
    /\ UNCHANGED <<tables, handlers, config, threads>>

\* variant of handle_exception: line 208 is missing, the after hooks are not
\* called between the error handler and the unwinding
handle_exception_no_hooks(out) ==
    /\ pc = "catch"
    /\ caught' = ex
    /\ LET Hit(e) == IsInstance(ex, e.err_type)
           k == FirstIndex(Hits(error_handlers, Hit))
       IN  IF k # 0
           THEN /\ trace' = Append(trace, Ev("err_handler", error_handlers[k].handler, out))
                /\ IF out = "ok"
                   THEN /\ pc' = "resp_mw"
                        /\ site' = "209"
                        /\ ex' = ex
                   ELSE /\ ex' = out
                        /\ pc' = RaiseTo("handler", out)
                        /\ site' = site
                /\ hook_i' = hook_i
           ELSE /\ out = "ok"
                /\ pc' = "resp_mw"
                /\ site' = "230"
                /\ UNCHANGED <<hook_i, ex, trace>>
    /\ UNCHANGED <<req, composed, resp, sent, result, stack, mw_i>>
    /\ UNCHANGED <<tables, handlers, config, threads>>

\* API.__call__, lines 204-230: "except Exception as ex" and the scan of
\* self._error_handlers; the first matching handler is called, and without
\* a match the remaining process_response methods run before the re-raise
handle_exception(out) ==
    /\ pc = "catch"
    /\ caught' = ex
    /\ LET Hit(e) == IsInstance(ex, e.err_type)
           k == FirstIndex(Hits(error_handlers, Hit))
       IN  IF k # 0
           THEN /\ trace' = Append(trace, Ev("err_handler", error_handlers[k].handler, out))
                /\ IF out = "ok"
                   THEN /\ pc' = HooksNext(1)
                        /\ hook_i' = 1
                        /\ site' = "208"
                        /\ ex' = ex
                   ELSE /\ ex' = out
                        /\ pc' = RaiseTo("handler", out)
                        /\ UNCHANGED <<hook_i, site>>
           ELSE /\ out = "ok"
                /\ pc' = "resp_mw"
                /\ site' = "230"
                /\ UNCHANGED <<hook_i, ex, trace>>
    /\ UNCHANGED <<req, composed, resp, sent, result, stack, mw_i>>
    /\ UNCHANGED <<tables, handlers, config, threads>>

\* variant of compose_error_response: line 235 is missing, the after hooks
\* are not called once the error response is composed
compose_error_response_no_hooks(error) ==
    /\ pc = "compose"
    /\ resp' = ErrorResponse(resp, error)
    /\ composed' = Given([error |-> error, before |-> resp])
    /\ trace' = Append(trace, Ev("compose_error_response", 0, "ok"))
    /\ pc' = "resp_mw"
    /\ site' = "236"
    /\ UNCHANGED <<req, sent, result, stack, mw_i, hook_i, ex, caught>>
    /\ UNCHANGED <<tables, handlers, config, threads>>

\* API.__call__, lines 233-235: "except HTTPError as ex", the error response
\* is composed from the exception (its attributes are `error`) and the after
\* hooks follow
compose_error_response(error) ==
    /\ pc = "compose"
    /\ resp' = ErrorResponse(resp, error)
    /\ composed' = Given([error |-> error, before |-> resp])
    /\ trace' = Append(trace, Ev("compose_error_response", 0, "ok"))
    /\ pc' = HooksNext(1)
    /\ hook_i' = 1
    /\ site' = "235"
    /\ UNCHANGED <<req, sent, result, stack, mw_i, ex, caught>>
    /\ UNCHANGED <<tables, handlers, config, threads>>

\* variant of Finalize: start_response is called a second time
Finalize_twice(wsgi_file_wrapper) ==
    /\ pc = "finalize"
    /\ sent' = Given(Finalized(req.method, resp, wsgi_file_wrapper))
    /\ trace' = Append(trace, Ev("start_response", 0, "ok"))
    /\ pc' = IF \E i \in 1..Len(trace) : trace[i].op = "start_response"
             THEN "done"
             ELSE "finalize"
    /\ UNCHANGED <<req, composed, resp, result, stack, mw_i, hook_i, site, ex, caught>>
    /\ UNCHANGED <<tables, handlers, config, threads>>

\* API.__call__, lines 241-261: the response is started and the body returned
Finalize(wsgi_file_wrapper) ==
    /\ pc = "finalize"
    /\ sent' = Given(Finalized(req.method, resp, wsgi_file_wrapper))
    /\ trace' = Append(trace, Ev("start_response", 0, "ok"))
    /\ pc' = "done"
    /\ UNCHANGED <<req, composed, resp, result, stack, mw_i, hook_i, site, ex, caught>>
    /\ UNCHANGED <<tables, handlers, config, threads>>

(* ----------------------- concurrent dispatch calls -------------------- *)

\* the local variables of the running activation of API.__call__
Frame ==
    [pc |-> pc, req |-> req, result |-> result, stack |-> stack, mw_i |-> mw_i,
     hook_i |-> hook_i, site |-> site, ex |-> ex, caught |-> caught,
     trace |-> trace, resp |-> resp, sent |-> sent, composed |-> composed]

\* the local variables of an activation that has not started
NewFrame ==
    [pc |-> "idle", req |-> NoReq, result |-> NoResult, stack |-> << >>, mw_i |-> 0,
     hook_i |-> 0, site |-> NoneVal, ex |-> NoneVal, caught |-> NoneVal,
     trace |-> << >>, resp |-> NewResponse, sent |-> Unset, composed |-> Unset]

\* variant of middleware_stack: the stack is an attribute of the API object,
\* one list for all the calls in progress
middleware_stack_shared(frame, shared) == shared

\* API.__call__, line 182: middleware_stack is a local variable, so the
\* stack a call works on is the one of its own activation
middleware_stack(frame, shared) == frame.stack

\* the running call is suspended between two of its steps and call c, on
\* another thread, goes on from where it was suspended
Switch(c) ==
    /\ c \in DOMAIN parked
    /\ cur' = c
    /\ parked' = [d \in (DOMAIN parked \ {c}) \cup {cur} |->
                      IF d = cur THEN Frame ELSE parked[d]]
    /\ pc' = parked[c].pc
    /\ req' = parked[c].req
    /\ result' = parked[c].result
    /\ stack' = middleware_stack(parked[c], stack)
    /\ mw_i' = parked[c].mw_i
    /\ hook_i' = parked[c].hook_i
    /\ site' = parked[c].site
    /\ ex' = parked[c].ex
    /\ caught' = parked[c].caught
    /\ trace' = parked[c].trace
    /\ resp' = parked[c].resp
    /\ sent' = parked[c].sent
    /\ composed' = parked[c].composed
    /\ UNCHANGED <<tables, handlers, config>>

(* -------------------------- specifications ---------------------------- *)

\* setup of the route and sink tables, then the resolution of one request
InitResolve ==
    /\ TablesInit
    /\ middleware = << >>
    /\ after = 0
    /\ CallInit
    /\ OneCall

NextResolve ==
    \/ \E t \in Templates, r \in Resources : add_route(t, r)
    \/ \E s \in SinkIds, p \in Prefixes : add_sink(s, p)
    \/ \E p \in Paths, m \in Methods : Call(p, m)
    \/ Resolve

SpecResolve == InitResolve /\ [][NextResolve]_vars

\* a callback fails with a structured failure or with an unstructured one
MwOutcomes == {"ok", "HTTPError", "Base"}

\* an after hook may also raise TypeError (e.g. by not accepting "resource")
HookOutcomes == MwOutcomes \cup {"TypeError"}

\* the HTTPError raised in a dispatch whose callbacks are followed step by
\* step: 404 with a JSON representation and no headers of its own
DispatchErrors ==
    {[status |-> "404 Not Found", headers |-> Unset, has_representation |-> TRUE,
      serialized |-> [media_type |-> "application/json", body |-> Given(<<"a", "a">>)]]}

\* the steps of API.__call__ after the request has been resolved
Dispatch ==
    \/ \E out \in MwOutcomes : call_req_mw(out)
    \/ \E out \in HookOutcomes : call_after_hooks(out)
    \/ \E out \in MwOutcomes : call_after_hooks_retry(out)
    \/ after_hooks_return
    \/ \E out \in MwOutcomes : call_resp_mw(out)
    \/ call_resp_mw_return
    \/ \E out \in MwOutcomes : handle_exception(out)
    \/ \E e \in DispatchErrors : compose_error_response(e)
    \/ \E w \in {FALSE} : Finalize(w)

\* GET /a is routed to on_get of R1 (wrapped with the global hooks),
\* GET /b reaches no route and no sink (path_not_found, not wrapped)
DispatchRequests ==
    {[path |-> <<"a">>, method |-> "GET"], [path |-> <<"b">>, method |-> "GET"]}

\* the dispatch of one request by an API whose setup is over: the
\* constructor was given any middleware list and after hooks, one route was
\* added, and either no error handler or one handler for Base was added
Init ==
    /\ routes = << [path_template |-> <<Lit("a")>>,
                    method_map |-> create_http_method_map("R1"),
                    resource |-> "R1"] >>
    /\ route_log = routes
    /\ sinks = << >>
    /\ sink_log = << >>
    /\ error_handlers \in {<< >>, << [err_type |-> "Base", handler |-> 1] >>}
    /\ handler_log = error_handlers
    /\ setup_failed = 0
    /\ middleware \in SeqsUpTo(Components, MaxMiddleware)
    /\ after \in 0..MaxAfter
    /\ CallInit
    /\ OneCall

Next ==
    \/ \E r \in DispatchRequests : Call(r.path, r.method)
    \/ Resolve
    \/ \E out \in MwOutcomes : call_responder(out, resp)
    \/ Dispatch

Spec == Init /\ [][Next]_vars

\* setup of the error handler registry, then the dispatch of one request
\* through one middleware component; the responder may raise any kind
InitHandlers ==
    /\ TablesInit
    /\ middleware = << [process_request |-> TRUE, process_response |-> TRUE] >>
    /\ after = 1
    /\ CallInit
    /\ OneCall

NextHandlers ==
    \/ \E k \in RegKinds, h \in {0, Len(handler_log) + 1} : add_error_handler(k, h)
    \/ \E r \in DispatchRequests : Call(r.path, r.method)
    \/ Resolve
    \/ \E out \in Outcomes : call_responder(out, resp)
    \/ Dispatch

SpecHandlers == InitHandlers /\ [][NextHandlers]_vars

\* what a responder may leave in the response: a status, a Content-Type of
\* its own, and any of body, data and stream (with or without its length)
Responses ==
    [status : {"200 OK", "204 No Content", "304 Not Modified",
               "416 Range Not Satisfiable"},
     headers : {NoHeaders, [NoHeaders EXCEPT !["content-type"] = "text/plain"]},
     body : {Unset, Given(<< >>), Given(<<"a", "eacute">>)},
     data : {Unset, Given(<<1, 2, 3>>)},
     stream : {NoneVal, "file", "iterable"},
     stream_len : {Unset, Given(7)}]

\* the HTTPError instances a responder may raise, each with the result of
\* serializing it: (None, None), a media type with a body, or with None
Errors ==
    [status : {"404 Not Found", "204 No Content"},
     headers : {Unset, Given(NoHeaders),
                Given([NoHeaders EXCEPT !["content-type"] = "text/html"]),
                Given([NoHeaders EXCEPT !["x-app"] = "1"])},
     has_representation : BOOLEAN,
     serialized : {[media_type |-> NoneVal, body |-> Unset],
                   [media_type |-> "application/json", body |-> Unset],
                   [media_type |-> "application/json", body |-> Given(<<"a", "a">>)]}]

\* GET and HEAD of a path that no route and no sink serves
ResponseRequests ==
    {[path |-> <<"a">>, method |-> "GET"], [path |-> <<"a">>, method |-> "HEAD"]}

\* the dispatch of one request by an API without routes, middleware, hooks
\* and error handlers: the responder writes the response and returns or
\* raises an HTTPError, and the response is finalized
InitResponse ==
    /\ TablesInit
    /\ middleware = << >>
    /\ after = 0
    /\ CallInit
    /\ OneCall

NextResponse ==
    \/ \E r \in ResponseRequests : Call(r.path, r.method)
    \/ Resolve
    \/ \E out \in {"ok", "HTTPError"}, written \in Responses : call_responder(out, written)
    \/ handle_exception("ok")
    \/ call_resp_mw_return
    \/ \E e \in Errors : compose_error_response(e)
    \/ after_hooks_return
    \/ \E w \in BOOLEAN : Finalize(w)

SpecResponse == InitResponse /\ [][NextResponse]_vars

\* two dispatch calls in progress at once
CallIds == {1, 2}

\* two threads dispatch GET /a or GET /b on one API whose setup is over
\* (one route, one middleware component, one after hook, a handler for
\* Base), their steps interleaved in any way
InitConcurrent ==
    /\ routes = << [path_template |-> <<Lit("a")>>,
                    method_map |-> create_http_method_map("R1"),
                    resource |-> "R1"] >>
    /\ route_log = routes
    /\ sinks = << >>
    /\ sink_log = << >>
    /\ error_handlers = << [err_type |-> "Base", handler |-> 1] >>
    /\ handler_log = error_handlers
    /\ setup_failed = 0
    /\ middleware = << [process_request |-> TRUE, process_response |-> TRUE] >>
    /\ after = 1
    /\ CallInit
    /\ cur = 1
    /\ parked = [c \in CallIds \ {1} |-> NewFrame]

NextConcurrent ==
    \/ \E c \in CallIds : Switch(c)
    \/ \E r \in DispatchRequests : Call(r.path, r.method)
    \/ Resolve
    \/ \E out \in MwOutcomes : call_responder(out, resp)
    \/ Dispatch

SpecConcurrent == InitConcurrent /\ [][NextConcurrent]_vars

(* ----------------------- properties of dispatch ----------------------- *)

\* the dispatch call has ended: it returned, or an exception left it
Returned == pc = "done"

Propagated == pc = "raised"

Ended == Returned \/ Propagated

IsOp(op) == {i \in 1..Len(trace) : trace[i].op = op}

\* how many times callback op of component (hook, handler) id was invoked
Count(op, id) == Cardinality({i \in IsOp(op) : trace[i].id = id})

RaisedAt(i) == trace[i].out # "ok"

NoRaise == \A i \in 1..Len(trace) : ~RaisedAt(i)

IsRespEv(e) == e.op = "process_response"

IsMwEv(e) == e.op \in {"process_request", "responder", "process_response"}

IsHandlerEv(e) == e.op = "err_handler"

\* the ids of the events of sequence evs, in order
Ids(evs) == [k \in 1..Len(evs) |-> evs[k].id]

AllBoth ==
    \A c \in 1..Len(middleware) :
        middleware[c].process_request /\ middleware[c].process_response

\* C1: with [M1, M2, M3] all defining both callbacks, once the
\* process_request of M2 has raised, M1 and M2 are on the middleware stack
\* when the exception is caught, and when the call ends exactly the
\* process_response of M2 and then of M1 have run.
C1_PartialStack ==
    (/\ Len(middleware) = 3
     /\ AllBoth
     /\ \E i \in IsOp("process_request") : trace[i].id = 2 /\ RaisedAt(i))
    => /\ pc = "catch" => stack = <<1, 2>>
       /\ Ended => Ids(SelectSeq(trace, IsRespEv)) = <<2, 1>>

UpTo(n) == [i \in 1..n |-> i]

DownFrom(n) == [i \in 1..n |-> n + 1 - i]

HasReq(c) == middleware[c].process_request

HasResp(c) == middleware[c].process_response

OkEvents(op, ids) == [k \in 1..Len(ids) |-> Ev(op, ids[k], "ok")]

\* the callbacks around the responder in registration order M1..Mn, the
\* responder, then Mn..M1, leaving out the callbacks a component lacks
ExpectedOrder ==
    OkEvents("process_request", SelectSeq(UpTo(Len(middleware)), HasReq))
    \o <<Ev("responder", 0, "ok")>>
    \o OkEvents("process_response", SelectSeq(DownFrom(Len(middleware)), HasResp))

\* C2: a dispatch in which nothing raises runs process_request of M1..Mn in
\* order, then the responder, then process_response of Mn..M1, each once;
\* a component lacking a callback is skipped at its position.
C2_Order ==
    (Ended /\ NoRaise) => Returned /\ SelectSeq(trace, IsMwEv) = ExpectedOrder

\* the example of the class docstring: M2 lacks process_request, M3 lacks
\* process_response
C2_Witness ==
    /\ Returned
    /\ NoRaise
    /\ Len(middleware) = 3
    /\ HasReq(1) /\ HasResp(1)
    /\ ~HasReq(2)
    /\ ~HasResp(3)

\* C3: whatever raises, no component's process_response is invoked more
\* than once in a dispatch.
C3_AtMostOnce ==
    \A c \in 1..Len(middleware) : Count("process_response", c) <= 1

\* a process_response raised, an error handler handled it, and the call
\* returned with every one of three components unwound exactly once
C3_Witness ==
    /\ Returned
    /\ Len(middleware) = 3
    /\ \E i \in IsOp("process_response") : RaisedAt(i)
    /\ \E i \in IsOp("err_handler") : ~RaisedAt(i)
    /\ \A c \in 1..3 : Count("process_response", c) = 1

\* C4: when process_response methods raise (and nothing else does), every
\* component still on the stack has been unwound by the time the call ends.
C4_StackDrained ==
    (/\ Ended
     /\ \E i \in IsOp("process_response") : RaisedAt(i)
     /\ \A i \in 1..Len(trace) : RaisedAt(i) => IsRespEv(trace[i]))
    => stack = << >>

\* C5: an HTTPError never propagates out of the dispatch call.
C5_NoEscape == ~(Propagated /\ IsInstance(ex, "HTTPError"))

\* registrations whose exception class the caught exception is an instance of
Matching == {i \in 1..Len(handler_log) : IsInstance(caught, handler_log[i].err_type)}

Latest(S) == CHOOSE i \in S : \A j \in S : j <= i

\* C6: when an exception is caught by "except Exception", no error handler
\* is invoked if no registered class matches it, and otherwise exactly one
\* is: the handler of the most recently registered matching entry.
C6_LatestMatchingHandler ==
    LET invoked == SelectSeq(trace, IsHandlerEv)
    IN  IF caught = NoneVal \/ Matching = {}
        THEN invoked = << >>
        ELSE /\ Len(invoked) = 1
             /\ invoked[1].id = handler_log[Latest(Matching)].handler

\* Derived was registered before Base, a Derived exception was raised, and
\* the later, broader Base entry handled it
C6_Witness ==
    /\ Len(handler_log) = 2
    /\ handler_log[1].err_type = "Derived"
    /\ handler_log[2].err_type = "Base"
    /\ handler_log[1].handler # handler_log[2].handler
    /\ caught = "Derived"
    /\ Ids(SelectSeq(trace, IsHandlerEv)) = <<handler_log[2].handler>>


(* ---------------------- properties of resolution ---------------------- *)

\* _get_responder has returned for the request
Resolved == result.responder.kind # NoneVal

\* add_route calls whose template matches the request path
MatchingRoutes ==
    {i \in 1..Len(route_log) : TemplateMatch(route_log[i].path_template, req.path)}

\* add_sink calls whose prefix matches the request path
MatchingSinks ==
    {i \in 1..Len(sink_log) : PrefixMatch(sink_log[i].pattern, req.path)}

\* C7: a path matched by one or more routes is resolved with the most
\* recently added matching route: its resource, its captured fields, and a
\* responder of that resource or bad_request, never another route's.
C7_LastRouteWins ==
    (Resolved /\ MatchingRoutes # {}) =>
        LET route == route_log[Latest(MatchingRoutes)]
        IN  /\ result.resource = route.resource
            /\ result.params = GroupDict(route.path_template, req.path)
            /\ result.responder \in
                   {Responder("on", route.resource, req.method), bad_request}

\* the same template was added with R1 and later with R2; R2 answers
C7_Witness ==
    /\ Resolved
    /\ Len(route_log) = 2
    /\ route_log[1].path_template = route_log[2].path_template
    /\ route_log[1].resource = "R1"
    /\ route_log[2].resource = "R2"
    /\ MatchingRoutes = {1, 2}
    /\ result.resource = "R2"
    /\ result.responder = Responder("on", "R2", req.method)

\* C8: a path that no route matches and some sink prefix matches is
\* resolved, for any method and any route table, to the most recently added
\* matching sink with its named groups as params and no resource; and a
\* sink is never the result for a path that some route matches.
C8_SinkFallback ==
    Resolved =>
        /\ (MatchingRoutes = {} /\ MatchingSinks # {}) =>
               LET entry == sink_log[Latest(MatchingSinks)]
               IN  /\ result.responder = Responder("sink", entry.sink, NoneVal)
                   /\ result.params = GroupDict(entry.pattern, req.path)
                   /\ result.resource = NoneVal
        /\ result.responder.kind = "sink" => MatchingRoutes = {}

\* routes exist but none matches the path; of two matching sinks the later
\* one answers, with the group it captured
C8_Witness ==
    /\ Resolved
    /\ route_log # << >>
    /\ MatchingRoutes = {}
    /\ MatchingSinks = {1, 2}
    /\ sink_log[1].sink # sink_log[2].sink
    /\ req.method = "POST"
    /\ result.responder = Responder("sink", sink_log[2].sink, NoneVal)
    /\ result.params = {<<"name", "b">>}

\* C9: a path that no route and no sink matches is resolved to
\* path_not_found with empty params and no resource.
C9_NotFound ==
    (Resolved /\ MatchingRoutes = {} /\ MatchingSinks = {}) =>
        result = [responder |-> path_not_found, params |-> {}, resource |-> NoneVal]

\* routes and sinks exist, none matches the path
C9_Witness ==
    /\ Resolved
    /\ route_log # << >>
    /\ sink_log # << >>
    /\ MatchingRoutes = {}
    /\ MatchingSinks = {}
    /\ result.responder = path_not_found

ErrorContentType(error) ==
    IF error.headers = Unset THEN NoneVal ELSE error.headers[1]["content-type"]

\* C11: once an HTTPError has been composed into the response, the status
\* is the error's status and each header of the error is a header of the
\* response (Content-Type excepted when the serializer's replaces it); if
\* the error has a representation and the serializer returned a body, the
\* body is that body and the content type is the serializer's media type,
\* whatever Content-Type the error's headers or the responder had set;
\* otherwise the body is as before, and the content type is as the error's
\* headers left it: theirs if they name one, else as before.
C11_Compose ==
    composed # Unset =>
        LET error == composed[1].error
            before == composed[1].before
            serialized == error.has_representation /\ error.serialized.body # Unset
        IN  /\ resp.status = error.status
            /\ \A n \in HeaderNames \ {"content-type"} :
                   resp.headers[n] = IF error.headers # Unset /\ error.headers[1][n] # NoneVal
                                     THEN error.headers[1][n]
                                     ELSE before.headers[n]
            /\ IF serialized
               THEN /\ resp.body = error.serialized.body
                    /\ content_type(resp) = error.serialized.media_type
               ELSE /\ resp.body = before.body
                    /\ content_type(resp) = IF ErrorContentType(error) # NoneVal
                                            THEN ErrorContentType(error)
                                            ELSE content_type(before)
            /\ resp.data = before.data
            /\ resp.stream = before.stream

\* the responder had set a body and a Content-Type, the error's headers name
\* another Content-Type, and the serializer's body and media type won
C11_Witness ==
    /\ pc = "done"
    /\ composed # Unset
    /\ composed[1].before.body = Given(<<"a", "eacute">>)
    /\ content_type(composed[1].before) = "text/plain"
    /\ ErrorContentType(composed[1].error) = "text/html"
    /\ composed[1].error.has_representation
    /\ resp.body = Given(<<"a", "a">>)
    /\ content_type(resp) = "application/json"
    /\ resp.status = "404 Not Found"

\* C12: whenever a dispatch call returns, if the method is HEAD or the final
\* status is 100, 101, 204 or 304 then the body returned is the empty list,
\* whatever body, data or stream the response holds, with or without an
\* error composed into it.
C12_BodySuppressed ==
    (/\ sent # Unset
     /\ \/ req.method = "HEAD"
        \/ resp.status \in {"100 Continue", "101 Switching Protocols",
                            "204 No Content", "304 Not Modified"})
    => sent[1].body = Chunks(<< >>)

\* a GET whose responder set data and a stream and then raised an HTTPError
\* with status 204 and a serialized body: the call returned the empty list
C12_Witness ==
    /\ pc = "done"
    /\ req.method = "GET"
    /\ composed # Unset
    /\ resp.status = "204 No Content"
    /\ resp.body = Given(<<"a", "a">>)
    /\ resp.data # Unset
    /\ resp.stream = "file"
    /\ sent[1].body = Chunks(<< >>)

\* the body of the call is not suppressed
NotSuppressed ==
    /\ sent # Unset
    /\ req.method # "HEAD"
    /\ resp.status \notin {"100 Continue", "101 Switching Protocols",
                           "204 No Content", "304 Not Modified"}

\* C13: when the body is not suppressed: with a body set, the call returns
\* the one chunk of its UTF-8 bytes and Content-Length is their number, even
\* if data or a stream is set too; else with data set, the one chunk of the
\* data and its length; else with a stream set, the stream (wrapped or not)
\* and Content-Length is the declared stream length, or there is no
\* Content-Length header when none is declared.
C13_LengthAndBody ==
    NotSuppressed =>
        LET body == sent[1].body
            length == sent[1].headers["content-length"]
        IN  IF resp.body # Unset
            THEN /\ body = Chunks(<<Utf8(resp.body[1])>>)
                 /\ length = Str(Len(Utf8(resp.body[1])))
            ELSE IF resp.data # Unset
            THEN /\ body = Chunks(<<resp.data[1]>>)
                 /\ length = Str(Len(resp.data[1]))
            ELSE IF resp.stream # NoneVal
            THEN /\ body.kind \in {"file_wrapper", "iter_read", "stream"}
                 /\ length = IF resp.stream_len # Unset
                             THEN Str(resp.stream_len[1])
                             ELSE NoneVal
            ELSE body = Chunks(<< >>)

\* body, data and a stream with a declared length were all set: the call
\* returned the three UTF-8 bytes of the two-character body
C13_Witness ==
    /\ NotSuppressed
    /\ resp.body = Given(<<"a", "eacute">>)
    /\ resp.data = Given(<<1, 2, 3>>)
    /\ resp.stream = "iterable"
    /\ resp.stream_len = Given(7)
    /\ sent[1].body = Chunks(<< <<97, 195, 169>> >>)
    /\ sent[1].headers["content-length"] = "3"

(* ------------------- properties of the control flow ------------------- *)

\* start_response has been called, and nothing has been called since
StartedLast ==
    \A i \in IsOp("start_response") : i = Len(trace)

\* C14 as stated: every dispatch call, however it ends, has called
\* start_response exactly once, after every callback.
C14_OncePerCall ==
    Ended => Cardinality(IsOp("start_response")) = 1 /\ StartedLast

\* C14: a dispatch call that returns has called start_response exactly once,
\* after every responder, hook, error handler and middleware callback of the
\* call; a call that an exception leaves has not called it; and no call
\* calls it twice.
C14_OnceOnReturn ==
    /\ Cardinality(IsOp("start_response")) <= 1
    /\ StartedLast
    /\ Returned => Cardinality(IsOp("start_response")) = 1 /\ sent # Unset
    /\ ~Returned => IsOp("start_response") = {} /\ sent = Unset

\* a call whose responder raised returned after an error handler, an after
\* hook and a process_response had run: start_response is its last event
C14_Witness ==
    /\ Returned
    /\ IsOp("err_handler") # {}
    /\ IsOp("after_hook") # {}
    /\ IsOp("process_response") # {}
    /\ trace[Len(trace)].op = "start_response"
    /\ Cardinality(IsOp("start_response")) = 1

\* the entry carries a callable: an explicit handler, or the static method
\* "handle" of its exception class
CarriesHandler(entry) == entry.handler # 0 \/ HasStaticHandle(entry.err_type)

\* C15: an add_error_handler call that fails (no explicit handler, no static
\* "handle") fails during setup and leaves the registry as it was; every
\* entry of the registry carries a handler; and every error handler a
\* dispatch invokes is the handler of such an entry, so the missing handler
\* never shows during a dispatch.
C15_FailsAtRegistration ==
    /\ [](/\ \A k \in 1..Len(error_handlers) : CarriesHandler(error_handlers[k])
          /\ \A i \in IsOp("err_handler") :
                 \E k \in 1..Len(error_handlers) :
                     /\ error_handlers[k].handler = trace[i].id
                     /\ CarriesHandler(error_handlers[k])
                     /\ IsInstance(caught, error_handlers[k].err_type))
    /\ [][setup_failed' # setup_failed =>
              /\ pc = "idle" /\ pc' = "idle"
              /\ error_handlers' = error_handlers
              /\ handler_log' = handler_log]_vars

\* one registration without a handler failed, one for Derived took the
\* static Derived.handle, and a dispatch was handled by it and returned
C15_Witness ==
    /\ setup_failed = 1
    /\ error_handlers = <<[err_type |-> "Derived", handler |-> 0]>>
    /\ Returned
    /\ Ids(SelectSeq(trace, IsHandlerEv)) = <<0>>

\* the events after position i of the trace
After(i) == SubSeq(trace, i + 1, Len(trace))

\* C16: when a matched error handler has raised an HTTPError, by the end of
\* the call the error response was composed, every component that was still
\* on the stack has been unwound, none twice, and the call returned.
C16_HandlerRaisesHTTPError ==
    \A i \in IsOp("err_handler") :
        (Ended /\ trace[i].out = "HTTPError") =>
            /\ Returned
            /\ \E j \in IsOp("compose_error_response") : j > i
            /\ stack = << >>
            /\ \A c \in 1..Len(middleware) : Count("process_response", c) <= 1

Hooks == 1..after

Retried(i) ==
    /\ trace[i].op = "after_hook"
    /\ trace[i].out = "TypeError"
    /\ i < Len(trace)
    /\ trace[i + 1].op = "after_hook"
    /\ trace[i + 1].id = trace[i].id

\* an after hook before hook h raised an exception that left
\* _call_after_hooks, which ends the loop over the hooks
RaisedBefore(h) ==
    \E i \in IsOp("after_hook") : trace[i].id < h /\ RaisedAt(i) /\ ~Retried(i)

\* the places of a dispatch at which the after hooks are called: a responder
\* taken from a route returned, an error handler returned, or an HTTPError
\* was composed into the response
HookCalls ==
    {i \in 1..Len(trace) :
        \/ trace[i] = Ev("responder", 0, "ok") /\ result.responder.kind = "on"
        \/ trace[i].op = "err_handler" /\ trace[i].out = "ok"
        \/ trace[i].op = "compose_error_response"}

Raises == {i \in 1..Len(trace) : RaisedAt(i) /\ ~Retried(i)}

Earliest(S) == CHOOSE i \in S : \A j \in S : i <= j

\* the components on the stack once event e has raised: those before the
\* component whose callback raised, or all of them for the responder
StackAt(e) == IF e.op = "responder" THEN Len(middleware) ELSE e.id - 1

\* C19: in a call that returned, in which one callback (a process_request,
\* the responder or a process_response) raised, an error handler matched,
\* and nothing else raised, what follows the raise is exactly: the error
\* handler, the global after hooks in order, the process_response of the
\* components still on the stack from the last entered to the first, and
\* start_response; so no second error handler and no compose step.
C19_HandledOrder ==
    (/\ Returned
     /\ Cardinality({i \in 1..Len(trace) : RaisedAt(i)}) = 1
     /\ \A i \in 1..Len(trace) : RaisedAt(i) => IsMwEv(trace[i])
     /\ IsOp("err_handler") # {})
    => LET r == Earliest(Raises)
           on_stack == SelectSeq(DownFrom(StackAt(trace[r])), HasResp)
       IN  After(r) =
                  <<Ev("err_handler", handler_log[Latest(Matching)].handler, "ok")>>
                  \o OkEvents("after_hook", UpTo(after))
                  \o OkEvents("process_response", on_stack)
                  \o <<Ev("start_response", 0, "ok")>>

\* the responder raised with three components entered and one after hook:
\* handler, hook, process_response of M3, M2, M1, start_response
C19_Witness ==
    /\ Returned
    /\ Len(middleware) = 3
    /\ AllBoth
    /\ after = 1
    /\ trace[4] = Ev("responder", 0, "Base")
    /\ Ids(After(4)) = <<1, 1, 3, 2, 1, 0>>

\* C20: when the exception caught by "except Exception" matches no error
\* handler, by the end of the call every component that was on the stack
\* has been unwound, and the exception that went outward is the one caught:
\* nothing raised between the catch and the compose step of a caught
\* HTTPError, and any other caught exception left the call as it was, with
\* no error response composed.
C20_Unmatched ==
    (Ended /\ caught # NoneVal /\ Matching = {}) =>
        LET r == Earliest(Raises)
        IN  /\ stack = << >>
            /\ IF IsInstance(caught, "HTTPError")
               THEN \E j \in IsOp("compose_error_response") :
                        \A i \in (r + 1)..(j - 1) : ~RaisedAt(i)
               ELSE /\ Propagated
                    /\ ex = caught
                    /\ IsOp("compose_error_response") = {}
                    /\ \A i \in (r + 1)..Len(trace) : ~RaisedAt(i)

(* ------------------ properties of concurrent dispatch ----------------- *)

\* the activations of API.__call__ in progress: the running one and the
\* suspended ones
Frames == {Frame} \cup {parked[c] : c \in DOMAIN parked}

\* how many times the call of frame f has invoked process_response of c
Unwound(f, c) ==
    Cardinality({i \in 1..Len(f.trace) :
                    f.trace[i].op = "process_response" /\ f.trace[i].id = c})

\* the stack of frame f holds the components its own call has entered and
\* not yet unwound, in the order of entry, and its call has invoked the
\* process_response of exactly the components it has popped: what holds of
\* a call dispatched alone
OwnStack(f) ==
    /\ \A k \in 1..(Len(f.stack) - 1) : f.stack[k] < f.stack[k + 1]
    /\ \A c \in 1..Len(middleware) :
           LET entered == f.pc \notin {"idle", "resolve"} /\ c < f.mw_i
               on_stack == \E k \in 1..Len(f.stack) : f.stack[k] = c
           IN  /\ on_stack => entered /\ Unwound(f, c) = 0
               /\ (entered /\ ~on_stack /\ HasResp(c)) => Unwound(f, c) = 1
               /\ ~entered => Unwound(f, c) = 0

\* a call in which nothing raised has returned with the callbacks of a call
\* dispatched alone: process_request M1..Mn, responder, process_response
\* Mn..M1, and the response it started is its own
AsAlone(f) ==
    (f.pc = "done" /\ \A i \in 1..Len(f.trace) : f.trace[i].out = "ok") =>
        /\ SelectSeq(f.trace, IsMwEv) = ExpectedOrder
        /\ f.sent = Given(Finalized(f.req.method, f.resp, FALSE))

\* C18: however the steps of two dispatch calls on one API interleave, each
\* call's middleware stack holds exactly the components that call entered
\* and has not unwound, each call has run process_response for exactly the
\* components it popped itself, and a call in which nothing raises runs the
\* callbacks it would run alone: no step of one call, failing or not,
\* pushes to or pops from the stack of the other.
C18_Isolation == \A f \in Frames : OwnStack(f) /\ AsAlone(f)

\* call 1 is suspended between its process_request and its responder with
\* its component on its stack, while call 2 has failed, was handled and has
\* unwound its own component and returned
C18_Witness ==
    /\ cur = 2
    /\ parked[1].pc = "responder"
    /\ parked[1].stack = <<1>>
    /\ Returned
    /\ caught = "Base"
    /\ stack = << >>
    /\ Count("process_response", 1) = 1

(* ---------------- properties of layers, hooks and framing ------------- *)

\* C21: once process_request of component Mk has raised, the dispatch runs
\* no process_request of a component after Mk, never invokes the responder
\* (so none of the hooks wrapped around it), and runs no process_response of
\* a component after Mk.
C21_LowerLayersSkipped ==
    \A i \in IsOp("process_request") :
        RaisedAt(i) =>
            /\ \A j \in IsOp("process_request") : trace[j].id <= trace[i].id
            /\ IsOp("responder") = {}
            /\ \A j \in IsOp("process_response") : trace[j].id <= trace[i].id
            /\ \A j \in (i + 1)..Len(trace) : trace[j].op # "process_request"

\* of three components the second raised in process_request with a handler
\* registered: the call returned, M1 was unwound, M3 and the responder never ran
C21_Witness ==
    /\ Returned
    /\ Len(middleware) = 3
    /\ AllBoth
    /\ trace[2] = Ev("process_request", 2, "Base")
    /\ IsOp("err_handler") # {}
    /\ Ids(SelectSeq(trace, IsRespEv)) = <<1>>

\* nothing that can be sent was set on the response
NothingSet == resp.body = Unset /\ resp.data = Unset /\ resp.stream = NoneVal

\* C22: when start_response is called, the default media type is passed to
\* the header generation exactly if the body returned is not the empty
\* list, or the method is HEAD, or the status is 416; so it is not passed
\* for a request other than HEAD whose status is bodiless, or whose
\* response has no body, data or stream and a status other than 416.
C22_ContentTypeFraming ==
    sent # Unset =>
        /\ sent[1].media_type <=>
               \/ sent[1].body # Chunks(<< >>)
               \/ req.method = "HEAD"
               \/ resp.status = "416 Range Not Satisfiable"
        /\ (/\ req.method # "HEAD"
            /\ \/ resp.status \in {"100 Continue", "101 Switching Protocols",
                                   "204 No Content", "304 Not Modified"}
               \/ NothingSet /\ resp.status # "416 Range Not Satisfiable")
           => ~sent[1].media_type

\* a GET answered with 416 and nothing to send: the body returned is empty
\* and the default media type is passed all the same
C22_Witness ==
    /\ sent # Unset
    /\ req.method = "GET"
    /\ resp.status = "416 Range Not Satisfiable"
    /\ NothingSet
    /\ sent[1].body = Chunks(<< >>)
    /\ sent[1].media_type

\* C23: in a dispatch call in which no after hook raises (so none is called
\* again for a TypeError either), no global after hook is invoked more than
\* once, whatever else raises after the hooks have run.
C23_HooksAtMostOnce ==
    (\A i \in IsOp("after_hook") : ~RaisedAt(i)) =>
        \A h \in Hooks : Count("after_hook", h) <= 1

====
